---- MODULE Spec2Model ----
(***************************************************************************)
(* Model of the Woffu synchronisation layer (api/models.py, api/utils.py,  *)
(* api/decorators.py, api/views.py).  One Company row, its WoffuUser,      *)
(* CalendarEvent and UserRequest rows, a clock, and the observable outcome *)
(* of the last handler that ran: the HTTP exchanges it made, the functions *)
(* whose body it entered, what it returned and what it raised.             *)
(*                                                                         *)
(* Time is counted in ticks, TicksPerDay ticks to a day.  Dates are day    *)
(* numbers, day 0 being a Monday.  Every ORM statement commits on its own  *)
(* (Django's autocommit), so what a handler wrote before it raised stays.  *)
(***************************************************************************)
EXTENDS Integers, Sequences, FiniteSets, TLC

VARIABLES exists, token, token_expiration, users, events, requests, now,
          op, prevOp, args, calls, invoked, result, raised

vars == <<exists, token, token_expiration, users, events, requests, now,
          op, prevOp, args, calls, invoked, result, raised>>

dbvars == <<exists, token, token_expiration, users, events, requests>>

----------------------------------------------------------------------------
(* Bounds of the model *)

MaxTime == 5
MaxExpiresIn == 2
TicksPerDay == 2
MaxDay == 2
MaxViews == 2
MaxShortViews == 1

----------------------------------------------------------------------------
(* Values *)

NoToken == "None"
NoneDate == -1
None == "None"
NoRaise == "no exception"
TokenValues == {"t1", "t2"}
Statuses == {200, 400, 404, 500}
FailStatuses == Statuses \ {200}

Days == 1..MaxDay
Stamps == {d * TicksPerDay + h : d \in Days, h \in 0..(TicksPerDay - 1)}

\* strptime(s, "%Y-%m-%dT%H:%M:%S.000").date() and datetime.now().date():
\* the time of day is dropped.
DateOf(stamp) == stamp \div TicksPerDay

\* date.weekday(): Monday is 0, Saturday 5, Sunday 6.
Weekday(d) == d % 7

SeqsUpTo(S, n) == UNION {[1..k -> S] : k \in 0..n}

Range(s) == {s[i] : i \in 1..Len(s)}

----------------------------------------------------------------------------
(* The database as a value, and the outcome of a call *)

DB == [token |-> token, token_expiration |-> token_expiration,
       users |-> users, events |-> events, requests |-> requests]

Out(db, cs, inv, res, exc) ==
    [db |-> db, calls |-> cs, invoked |-> inv, result |-> res, raised |-> exc]

Call(ep, key, status, body) ==
    [ep |-> ep, key |-> key, status |-> status, body |-> body]

\* Two calls one after the other: the second runs on the database the first
\* left, unless the first raised, which ends the caller too.
Then(o1, o2) ==
    IF o1.raised # NoRaise THEN o1
    ELSE [o2 EXCEPT !.calls = o1.calls \o o2.calls,
                    !.invoked = o1.invoked \o o2.invoked]

----------------------------------------------------------------------------
(* Company.is_valid_token *)

\* is_valid_token with the comparison off by one tick: a token in its last
\* tick of validity is taken for expired.
IsValidTokenLate(tok, exp, t) ==
    tok # NoToken /\ exp # NoneDate /\ exp > t + 1

IsValidToken(tok, exp, t) ==
    tok # NoToken /\ exp # NoneDate /\ exp > t

----------------------------------------------------------------------------
(* Company.get_company_token *)

\* models.py line 4 binds the name datetime to the class datetime.datetime,
\* whose attributes do not include datetime or timedelta.
DatetimeBinding == {"now", "today", "strptime", "date", "combine", "utcnow"}

\* The answers of POST /token: a status and a JSON body that has or lacks
\* access_token and expires_in.
Absent == "absent"
TokenBodies ==
    [access_token : TokenValues \cup {Absent},
     expires_in : (1..MaxExpiresIn) \cup {NoneDate}]
TokenResponses == [status : {200, 400, 500}, body : TokenBodies]

GetCompanyToken(db, t, resp) ==
    IF IsValidToken(db.token, db.token_expiration, t)
    THEN Out(db, <<>>, <<>>, db.token, NoRaise)
    ELSE LET c == <<Call("token", 0, resp.status, resp.body)>>
             b == resp.body
         IN IF resp.status = 200
            THEN IF b.access_token = Absent /\ b.expires_in = NoneDate
                 THEN Out(db, c, <<>>, None, NoRaise)
                 ELSE IF b.access_token = Absent
                 THEN Out(db, c, <<>>, None, "KeyError")
                 ELSE IF "datetime" \notin DatetimeBinding
                 \* self.token is set on the instance, then line 68 raises
                 \* before self.save(): the row is not written.
                 THEN Out(db, c, <<>>, None, "AttributeError")
                 ELSE IF b.expires_in = NoneDate
                 THEN Out(db, c, <<>>, None, "KeyError")
                 ELSE Out([db EXCEPT !.token = b.access_token,
                                     !.token_expiration = t + b.expires_in],
                          c, <<>>, b.access_token, NoRaise)
            ELSE Out(db, c, <<>>, None, NoRaise)

----------------------------------------------------------------------------
(* decorators.check_valid_token *)

\* The parameters of Company.get_company_token besides self (models.py
\* line 37), and the keyword arguments the wrapper calls it with
\* (decorators.py line 11).  Python raises TypeError for a keyword argument
\* the function does not take.
GetCompanyTokenParams == {}
WrapperKwargs == {"company"}

\* wrapper(**kwargs) around func, every caller passing company= or
\* woffu_user=.  body is the outcome of func(*args, **kwargs).
CheckValidToken(db, t, resp, body) ==
    IF ~IsValidToken(db.token, db.token_expiration, t)
    THEN IF ~(WrapperKwargs \subseteq GetCompanyTokenParams)
         THEN Out(db, <<>>, <<>>, None, "TypeError")
         ELSE Then(GetCompanyToken(db, t, resp), body)
    ELSE body

\* "Bearer " + company.token raises TypeError when the token is None.
NoBearer(db) == db.token = NoToken

----------------------------------------------------------------------------
(* utils.get_company_users *)

UserIds == {1, 2}
CalendarIds == {1, 2}

\* A user of the response; each external user has one email.
UserViews == [UserId : UserIds, CalendarId : CalendarIds]

ListResponses(Views, n) ==
    [status : {200}, body : SeqsUpTo(Views, n)]
      \cup [status : FailStatuses, body : {<<>>}]

UsersResponses(n) == ListResponses(UserViews, n)

NewUser(v) ==
    [woffu_id |-> v.UserId, calendar_id |-> v.CalendarId,
     active |-> TRUE, updated_at |-> NoneDate]

\* WoffuUser.objects.get_or_create(woffu_id, email, company, calendar_id)
\* for body[i], body[i+1], ...: woffu_id is unique, so creating a second row
\* for a known woffu_id raises IntegrityError.
RECURSIVE StoreUsers(_, _, _)
StoreUsers(us, body, i) ==
    IF i > Len(body) THEN [rows |-> us, raised |-> NoRaise]
    ELSE LET v == body[i] IN
         IF \E u \in us : u.woffu_id = v.UserId /\ u.calendar_id = v.CalendarId
         THEN StoreUsers(us, body, i + 1)
         ELSE IF \E u \in us : u.woffu_id = v.UserId
         THEN [rows |-> us, raised |-> "IntegrityError"]
         ELSE StoreUsers(us \cup {NewUser(v)}, body, i + 1)

GetCompanyUsersBody(db, resp) ==
    IF NoBearer(db) THEN Out(db, <<>>, <<"get_company_users">>, None, "TypeError")
    ELSE LET c == <<Call("users", 0, resp.status, resp.body)>>
             f == <<"get_company_users">>
         IN IF resp.status = 200
            THEN LET r == StoreUsers(db.users, resp.body, 1) IN
                 Out([db EXCEPT !.users = r.rows], c, f,
                     IF r.raised = NoRaise THEN "True" ELSE None, r.raised)
            ELSE Out(db, c, f, "False", NoRaise)

GetCompanyUsers(db, t, tresp, resp) ==
    CheckValidToken(db, t, tresp, GetCompanyUsersBody(db, resp))

----------------------------------------------------------------------------
(* utils.get_calendar_events *)

EventNames == {"A", "B"}
EventViews == [Name : EventNames, Date : Stamps]
EventsResponses(n) == ListResponses(EventViews, n)

NoCalendar == 0

\* company.woffuuser_set.filter(active=True).values_list("calendar_id")
\* .distinct(), or the one calendar asked for.
ActiveCalendars(db) == {u.calendar_id : u \in {x \in db.users : x.active}}

CalendarsOf(db, calendar_id) ==
    IF calendar_id = NoCalendar THEN ActiveCalendars(db) ELSE {calendar_id}

\* The orders in which the rows of an unordered query may come back.
Orders(S) == {s \in [1..Cardinality(S) -> S] : Range(s) = S}

EventDates(evs, cal) == {e.date : e \in {x \in evs : x.calendar_id = cal}}

\* Lines 82-88 for body[i], ...: snapshot is the queryset `events`, whose
\* rows are read once, at its first use, and kept.
RECURSIVE StoreEvents(_, _, _, _, _)
StoreEvents(evs, snapshot, cal, body, i) ==
    IF i > Len(body) THEN evs
    ELSE LET d == DateOf(body[i].Date)
             row == [name |-> body[i].Name, calendar_id |-> cal, date |-> d]
         IN IF d \notin snapshot
            THEN StoreEvents(evs \cup {row}, snapshot, cal, body, i + 1)
            ELSE StoreEvents(evs, snapshot, cal, body, i + 1)

\* One round of the loop of line 72, for a 200 answer: create, then delete
\* the rows of the calendar whose date the answer does not hold.
ReplaceEvents(evs, cal, body) ==
    LET dates == {DateOf(body[i].Date) : i \in 1..Len(body)}
        stored == StoreEvents(evs, EventDates(evs, cal), cal, body, 1)
    IN {e \in stored : ~(e.calendar_id = cal /\ e.date \notin dates)}

\* The loop of line 72 leaving at the first answer that is not 200, as a
\* return in the error branches would make it.
RECURSIVE EventsLoopAborts(_, _, _, _)
EventsLoopAborts(db, order, resps, i) ==
    IF i > Len(order) THEN Out(db, <<>>, <<>>, None, NoRaise)
    ELSE LET cal == order[i]
             r == resps[cal]
             c == Out(IF r.status = 200
                      THEN [db EXCEPT !.events = ReplaceEvents(db.events, cal, r.body)]
                      ELSE db,
                      <<Call("events", cal, r.status, r.body)>>, <<>>, None, NoRaise)
         IN IF r.status # 200 THEN c
            ELSE Then(c, EventsLoopAborts(c.db, order, resps, i + 1))

RECURSIVE EventsLoop(_, _, _, _)
EventsLoop(db, order, resps, i) ==
    IF i > Len(order) THEN Out(db, <<>>, <<>>, None, NoRaise)
    ELSE LET cal == order[i]
             r == resps[cal]
             c == Out(IF r.status = 200
                      THEN [db EXCEPT !.events = ReplaceEvents(db.events, cal, r.body)]
                      ELSE db,
                      <<Call("events", cal, r.status, r.body)>>, <<>>, None, NoRaise)
         IN Then(c, EventsLoop(c.db, order, resps, i + 1))

GetCalendarEventsBody(db, order, resps) ==
    LET f == <<"get_calendar_events">> IN
    IF Len(order) > 0 /\ NoBearer(db) THEN Out(db, <<>>, f, None, "TypeError")
    ELSE Then(Out(db, <<>>, f, None, NoRaise), EventsLoop(db, order, resps, 1))

GetCalendarEvents(db, t, tresp, order, resps) ==
    CheckValidToken(db, t, tresp, GetCalendarEventsBody(db, order, resps))

----------------------------------------------------------------------------
(* utils.get_users_requests *)

RequestIds == {1, 2}

\* StartDate and EndDate of a request of the response: a first day at its
\* first tick and a last day, not before it, at its last tick.
Spans == {sp \in Stamps \X Stamps :
            /\ sp[1] % TicksPerDay = 0
            /\ sp[2] % TicksPerDay = TicksPerDay - 1
            /\ sp[1] < sp[2]}

BulkViews == {[RequestId |-> r, UserId |-> u, StartDate |-> sp[1], EndDate |-> sp[2]] :
                r \in RequestIds, u \in UserIds, sp \in Spans}
BulkResponses(n) == ListResponses(BulkViews, n)

HasRequest(rs, id) == \E r \in rs : r.id = id

NewRequest(id, uid, v) ==
    [id |-> id, woffu_user |-> uid,
     init_date |-> DateOf(v.StartDate), end_date |-> DateOf(v.EndDate)]

\* Lines 121-131 for body[i], ...: WoffuUser.objects.get raises DoesNotExist
\* for an unknown user; UserRequest.objects.create raises IntegrityError
\* when the id, the primary key, is taken by a row of another user.
RECURSIVE StoreBulk(_, _, _, _)
StoreBulk(rs, us, body, i) ==
    IF i > Len(body) THEN [rows |-> rs, raised |-> NoRaise]
    ELSE LET v == body[i] IN
         IF ~\E u \in us : u.woffu_id = v.UserId
         THEN [rows |-> rs, raised |-> "DoesNotExist"]
         ELSE IF \E r \in rs : r.id = v.RequestId /\ r.woffu_user = v.UserId
         THEN StoreBulk(rs, us, body, i + 1)
         ELSE IF HasRequest(rs, v.RequestId)
         THEN [rows |-> rs, raised |-> "IntegrityError"]
         ELSE StoreBulk(rs \cup {NewRequest(v.RequestId, v.UserId, v)}, us, body, i + 1)

GetUsersRequestsBody(db, resp) ==
    LET f == <<"get_users_requests">> IN
    IF NoBearer(db) THEN Out(db, <<>>, f, None, "TypeError")
    ELSE LET c == <<Call("requests", 0, resp.status, resp.body)>> IN
         IF resp.status = 200
         THEN LET r == StoreBulk(db.requests, db.users, resp.body, 1) IN
              Out([db EXCEPT !.requests = r.rows], c, f,
                  IF r.raised = NoRaise THEN "True" ELSE None, r.raised)
         ELSE Out(db, c, f, "False", NoRaise)

GetUsersRequests(db, t, tresp, resp) ==
    CheckValidToken(db, t, tresp, GetUsersRequestsBody(db, resp))

----------------------------------------------------------------------------
(* utils.get_user_request *)

UserViewsOfRequests ==
    {[RequestId |-> r, Deleted |-> d, UpdatedOn |-> u,
      StartDate |-> sp[1], EndDate |-> sp[2]] :
        r \in RequestIds, d \in BOOLEAN, u \in BOOLEAN, sp \in Spans}
UserRequestResponses(n) == ListResponses(UserViewsOfRequests, n)

\* The three branches of lines 177-190 for one record.
ApplyView(rs, uid, v) ==
    IF v.Deleted
    THEN IF HasRequest(rs, v.RequestId)
         THEN [rows |-> {r \in rs : r.id # v.RequestId}, raised |-> NoRaise]
         ELSE [rows |-> rs, raised |-> "DoesNotExist"]
    ELSE IF v.UpdatedOn
    THEN [rows |-> {IF r.id = v.RequestId
                    THEN [r EXCEPT !.init_date = DateOf(v.StartDate),
                                   !.end_date = DateOf(v.EndDate)]
                    ELSE r : r \in rs},
          raised |-> NoRaise]
    ELSE IF HasRequest(rs, v.RequestId)
    THEN [rows |-> rs, raised |-> NoRaise]
    ELSE [rows |-> rs \cup {NewRequest(v.RequestId, uid, v)}, raised |-> NoRaise]

RECURSIVE ApplyViews(_, _, _, _)
ApplyViews(rs, uid, body, i) ==
    IF i > Len(body) THEN [rows |-> rs, raised |-> NoRaise]
    ELSE LET r == ApplyView(rs, uid, body[i]) IN
         IF r.raised # NoRaise THEN r
         ELSE ApplyViews(r.rows, uid, body, i + 1)

\* woffu_user is the row read by the caller; to_date is NoneDate when the
\* caller gives none.  Line 191 sets updated_at on the caller's object and
\* nothing saves it: the row keeps its watermark.
GetUserRequestBody(db, t, woffu_user, to_date, resp) ==
    LET f == <<"get_user_request">>
        init_date == woffu_user.updated_at
    IN IF init_date # NoneDate /\ to_date # NoneDate /\ to_date < init_date
       THEN Out(db, <<>>, f, None, NoRaise)
       ELSE IF NoBearer(db) THEN Out(db, <<>>, f, None, "TypeError")
       ELSE LET c == <<Call("user_requests", woffu_user.woffu_id, resp.status, resp.body)>> IN
            IF resp.status = 200
            THEN LET r == ApplyViews(db.requests, woffu_user.woffu_id, resp.body, 1) IN
                 Out([db EXCEPT !.requests = r.rows], c, f, None, r.raised)
            ELSE Out(db, c, f, None, NoRaise)

GetUserRequest(db, t, tresp, woffu_user, to_date, resp) ==
    CheckValidToken(db, t, tresp, GetUserRequestBody(db, t, woffu_user, to_date, resp))

----------------------------------------------------------------------------
(* utils.get_requests_changes *)

\* The fields of Company (models.py lines 18-27); line 211 reads
\* company.updated_on.
CompanyFields ==
    {"name", "company_id", "woffu_key", "token", "token_expiration", "updated_at"}

GetRequestsChangesBody(db) ==
    IF "updated_on" \notin CompanyFields
    THEN Out(db, <<>>, <<"get_requests_changes">>, None, "AttributeError")
    ELSE Out(db, <<Call("requests_changes", 0, 200, <<>>)>>,
             <<"get_requests_changes">>, None, NoRaise)

GetRequestsChanges(db, t, tresp) ==
    CheckValidToken(db, t, tresp, GetRequestsChangesBody(db))

----------------------------------------------------------------------------
(* utils.sign *)

\* The days a sign may be asked for: a whole week.
SignDays == 0..6
SignStatuses == {200, 201, 400, 500}

\* requests.Response.ok
Ok(status) == status < 400

SignBody(db, woffu_user, date, status) ==
    LET f == <<"sign">> IN
    IF Weekday(date) \in {5, 6} THEN Out(db, <<>>, f, None, NoRaise)
    ELSE IF \E e \in db.events :
               e.calendar_id = woffu_user.calendar_id /\ e.date = date
    THEN Out(db, <<>>, f, None, NoRaise)
    ELSE IF \E r \in db.requests :
               /\ r.woffu_user = woffu_user.woffu_id
               /\ r.init_date >= date
               /\ r.end_date <= date
    THEN Out(db, <<>>, f, None, NoRaise)
    ELSE IF NoBearer(db) THEN Out(db, <<>>, f, None, "TypeError")
    ELSE Out(db, <<Call("signs", woffu_user.woffu_id, status, <<>>)>>, f,
             IF Ok(status) THEN "True" ELSE "False", NoRaise)

Sign(db, t, tresp, woffu_user, date, status) ==
    CheckValidToken(db, t, tresp, SignBody(db, woffu_user, date, status))

----------------------------------------------------------------------------
(* Steps *)

\* No handler is running: the outcome of the last one has been handed to
\* its caller.
Idle == op = "idle"

\* What a handler leaves behind: the rows its calls wrote and what its
\* caller saw.
Finish(name, a, o) ==
    /\ token' = o.db.token
    /\ token_expiration' = o.db.token_expiration
    /\ users' = o.db.users
    /\ events' = o.db.events
    /\ requests' = o.db.requests
    /\ op' = name
    /\ prevOp' = prevOp
    /\ args' = a
    /\ calls' = o.calls
    /\ invoked' = o.invoked
    /\ result' = o.result
    /\ raised' = o.raised

\* A step that calls nothing.
Silent(name) ==
    /\ op' = name
    /\ prevOp' = prevOp
    /\ args' = <<>>
    /\ calls' = <<>>
    /\ invoked' = <<>>
    /\ result' = None
    /\ raised' = NoRaise

\* The answers POST /token may give to the wrapper's refresh; the endpoint
\* answers alike within one handler.  No answer is drawn when the wrapper
\* makes no call.
RefreshAnswers(db, t) ==
    IF IsValidToken(db.token, db.token_expiration, t)
          \/ ~(WrapperKwargs \subseteq GetCompanyTokenParams)
    THEN {[status |-> 500, body |-> [access_token |-> Absent, expires_in |-> NoneDate]]}
    ELSE TokenResponses

\* The answers drawn for a wrapped call: one of S, and nothing to choose
\* where the wrapper raises before func runs.
Drawn(db, t, S) ==
    IF IsValidToken(db.token, db.token_expiration, t)
          \/ WrapperKwargs \subseteq GetCompanyTokenParams
    THEN S
    ELSE {CHOOSE x \in S : TRUE}

\* A direct call of company.get_company_token().
AcquireToken ==
    /\ Idle
    /\ exists
    /\ \E resp \in TokenResponses :
          Finish("get_company_token", <<>>, GetCompanyToken(DB, now, resp))
    /\ UNCHANGED <<exists, now>>

GetCompanyUsersAct(n) ==
    /\ Idle
    /\ exists
    /\ \E tresp \in RefreshAnswers(DB, now), resp \in Drawn(DB, now, UsersResponses(n)) :
          Finish("get_company_users", <<>>, GetCompanyUsers(DB, now, tresp, resp))
    /\ UNCHANGED <<exists, now>>

GetCalendarEventsAct(n) ==
    /\ Idle
    /\ exists
    /\ \E tresp \in RefreshAnswers(DB, now), calendar_id \in {NoCalendar} \cup CalendarIds :
          \E order \in Drawn(DB, now, Orders(CalendarsOf(DB, calendar_id))),
             resps \in Drawn(DB, now, [CalendarsOf(DB, calendar_id) -> EventsResponses(n)]) :
             Finish("get_calendar_events", <<calendar_id>>,
                    GetCalendarEvents(DB, now, tresp, order, resps))
    /\ UNCHANGED <<exists, now>>

\* The events of one name that are dated at the first tick of their day:
\* the loop over the calendars reads neither the name nor the time of day.
MidnightViews == {v \in EventViews : v.Name = "A" /\ v.Date % TicksPerDay = 0}
MidnightResponses(n) == ListResponses(MidnightViews, n)

\* get_calendar_events(company=company), as the receiver and
\* sync_company_users call it: every active calendar, each answered from
\* answers.
PullCompanyEventsAct(answers) ==
    /\ Idle
    /\ exists
    /\ \E tresp \in RefreshAnswers(DB, now) :
          \E order \in Drawn(DB, now, Orders(CalendarsOf(DB, NoCalendar))),
             resps \in Drawn(DB, now, [CalendarsOf(DB, NoCalendar) -> answers]) :
             Finish("get_calendar_events", <<NoCalendar>>,
                    GetCalendarEvents(DB, now, tresp, order, resps))
    /\ UNCHANGED <<exists, now>>

GetUsersRequestsAct(n) ==
    /\ Idle
    /\ exists
    /\ \E tresp \in RefreshAnswers(DB, now), resp \in Drawn(DB, now, BulkResponses(n)) :
          Finish("get_users_requests", <<>>, GetUsersRequests(DB, now, tresp, resp))
    /\ UNCHANGED <<exists, now>>

GetUserRequestAct(n, toDates) ==
    /\ Idle
    /\ exists
    /\ \E tresp \in RefreshAnswers(DB, now), u \in users,
          to_date \in toDates, resp \in Drawn(DB, now, UserRequestResponses(n)) :
          Finish("get_user_request", <<u.woffu_id, to_date>>,
                 GetUserRequest(DB, now, tresp, u, to_date, resp))
    /\ UNCHANGED <<exists, now>>

GetRequestsChangesAct ==
    /\ Idle
    /\ exists
    /\ \E tresp \in RefreshAnswers(DB, now) :
          Finish("get_requests_changes", <<>>, GetRequestsChanges(DB, now, tresp))
    /\ UNCHANGED <<exists, now>>

SignAct ==
    /\ Idle
    /\ exists
    /\ \E tresp \in RefreshAnswers(DB, now), u \in users, date \in SignDays,
          sign_in \in BOOLEAN, status \in Drawn(DB, now, SignStatuses) :
          Finish("sign", <<u.woffu_id, date, sign_in>>,
                 Sign(DB, now, tresp, u, date, status))
    /\ UNCHANGED <<exists, now>>

----------------------------------------------------------------------------
(* views.sync_user_request, views.sync_company_users *)

\* return HttpResponse(status=204), reached when nothing raised.
Respond(o, status) ==
    IF o.raised # NoRaise THEN o ELSE [o EXCEPT !.result = status]

\* The calendars a pull that follows o will ask for.
NextCalendars(o) == IF o.raised = NoRaise THEN ActiveCalendars(o.db) ELSE {}

SyncUserRequestView(n) ==
    /\ Idle
    /\ exists
    /\ \E tresp \in RefreshAnswers(DB, now), u \in users,
          resp \in Drawn(DB, now, UserRequestResponses(n)) :
          Finish("sync_user_request", <<u.woffu_id>>,
                 Respond(GetUserRequest(DB, now, tresp, u, NoneDate, resp), "204"))
    /\ UNCHANGED <<exists, now>>

SyncCompanyUsersView(n) ==
    /\ Idle
    /\ exists
    /\ \E tresp \in RefreshAnswers(DB, now), resp \in Drawn(DB, now, UsersResponses(n)) :
          LET o1 == GetCompanyUsers(DB, now, tresp, resp) IN
          \E order \in Orders(NextCalendars(o1)),
             resps \in [NextCalendars(o1) -> EventsResponses(n)] :
             Finish("sync_company_users", <<>>,
                    Respond(Then(o1, GetCalendarEvents(o1.db, now, tresp, order, resps)),
                            "204"))
    /\ UNCHANGED <<exists, now>>

----------------------------------------------------------------------------
(* models.process_company_users, the post_save receiver of Company *)

EmptyDB(tok, exp) ==
    [token |-> tok, token_expiration |-> exp,
     users |-> {}, events |-> {}, requests |-> {}]

Expirations == (0..(MaxTime + 1)) \cup {NoneDate}

ProcessCompanyUsers(db, t, created, tresp, ru, order, resps, rr) ==
    IF created
    THEN LET o1 == GetCompanyUsers(db, t, tresp, ru)
             o2 == Then(o1, GetCalendarEvents(o1.db, t, tresp, order, resps))
         IN Then(o2, GetUsersRequests(o2.db, t, tresp, rr))
    ELSE Out(db, <<>>, <<>>, None, NoRaise)

\* A Company is saved for the first time, with the token fields the form
\* gave.  atomic: the save runs inside a transaction (the admin's add view),
\* which an exception of the receiver rolls back, the new row included.
CreateCompany(n) ==
    /\ Idle
    /\ ~exists
    /\ \E tok \in TokenValues \cup {NoToken}, exp \in Expirations, atomic \in BOOLEAN,
          ru \in UsersResponses(n), rr \in BulkResponses(n) :
          LET db0 == EmptyDB(tok, exp)
              tresp == CHOOSE r \in RefreshAnswers(db0, now) : TRUE
              o1 == GetCompanyUsers(db0, now, tresp, ru)
          IN \E order \in Orders(NextCalendars(o1)),
                resps \in [NextCalendars(o1) -> EventsResponses(n)] :
                LET o == ProcessCompanyUsers(db0, now, TRUE, tresp, ru, order, resps, rr)
                    undone == atomic /\ o.raised # NoRaise
                IN /\ exists' = ~undone
                   /\ Finish("create_company", <<atomic>>,
                             IF undone
                             THEN [o EXCEPT !.db = EmptyDB(NoToken, NoneDate)]
                             ELSE o)
    /\ UNCHANGED now

\* An administrator edits the token fields of the existing Company.  The
\* receiver runs with created false.
AdminSaveCompany(toks, exps) ==
    /\ Idle
    /\ exists
    /\ \E tok \in toks, exp \in exps :
          LET tresp == CHOOSE r \in TokenResponses : TRUE
              e == <<>>
          IN Finish("save_company", <<>>,
                    ProcessCompanyUsers([DB EXCEPT !.token = tok,
                                                   !.token_expiration = exp],
                                        now, FALSE, tresp, e, e, e, e))
    /\ UNCHANGED <<exists, now>>

\* An administrator edits the watermark of a user (admin.py line 30).
AdminSaveUser ==
    /\ Idle
    /\ exists
    /\ \E u \in users, d \in {NoneDate} \cup Days :
          /\ users' = (users \ {u}) \cup {[u EXCEPT !.updated_at = d]}
          /\ Silent("save_user")
    /\ UNCHANGED <<exists, token, token_expiration, events, requests, now>>

\* An administrator switches the active flag of a user (models.py line 94)
\* in the WoffuUserAdmin change form.
AdminSetActive ==
    /\ Idle
    /\ exists
    /\ \E u \in users :
          /\ users' = (users \ {u}) \cup {[u EXCEPT !.active = ~u.active]}
          /\ Silent("save_user")
    /\ UNCHANGED <<exists, token, token_expiration, events, requests, now>>

\* The caller takes the outcome of the handler that ran; prevOp keeps which
\* one it was, for the handlers a specification tracks.
Return(tracked) ==
    /\ ~Idle
    /\ op' = "idle"
    /\ prevOp' = IF op \in tracked THEN op ELSE "idle"
    /\ args' = <<>>
    /\ calls' = <<>>
    /\ invoked' = <<>>
    /\ result' = None
    /\ raised' = NoRaise
    /\ UNCHANGED <<dbvars, now>>

Tick ==
    /\ Idle
    /\ now < MaxTime
    /\ now' = now + 1
    /\ Silent("tick")
    /\ UNCHANGED dbvars

----------------------------------------------------------------------------
(* Specifications *)

Quiet ==
    /\ op = "idle"
    /\ prevOp = "idle"
    /\ args = <<>>
    /\ calls = <<>>
    /\ invoked = <<>>
    /\ result = None
    /\ raised = NoRaise

\* A Company that exists with no token yet, an empty database.
InitToken ==
    /\ exists = TRUE
    /\ token = NoToken
    /\ token_expiration = NoneDate
    /\ users = {}
    /\ events = {}
    /\ requests = {}
    /\ now = 0
    /\ Quiet

NextToken ==
    \/ AcquireToken
    \/ AdminSaveCompany(TokenValues \cup {NoToken}, Expirations)
    \/ Tick
    \/ Return({"get_company_token"})

SpecToken == InitToken /\ [][NextToken]_vars

\* A Company whose administrator stored a token that outlives the run, and
\* whose two users, one per calendar, an earlier users pull stored.
LongToken == "t1"
SyncedUsers ==
    {NewUser([UserId |-> 1, CalendarId |-> 1]),
     NewUser([UserId |-> 2, CalendarId |-> 2])}

InitSynced ==
    /\ exists = TRUE
    /\ token = LongToken
    /\ token_expiration = MaxTime + 1
    /\ users = SyncedUsers
    /\ events = {}
    /\ requests = {}
    /\ now = 0
    /\ Quiet

\* The to_date a caller may give: none, or a day.
ToDates == {NoneDate} \cup Days

\* The token fields an administrator stores in the larger specifications:
\* none, or a token that outlives the run.
FewTokens == {NoToken, LongToken}
FewExpirations == {MaxTime + 1}

NextRequests ==
    \/ GetUserRequestAct(MaxViews, ToDates)
    \/ AdminSaveUser
    \/ Return({})

SpecRequests == InitSynced /\ [][NextRequests]_vars

NextCalendar ==
    \/ GetCalendarEventsAct(MaxViews)
    \/ Return({})

SpecCalendar == InitSynced /\ [][NextCalendar]_vars

NextSign ==
    \/ SignAct
    \/ GetCalendarEventsAct(MaxShortViews)
    \/ GetUserRequestAct(MaxShortViews, {NoneDate})
    \/ Return({})

SpecSign == InitSynced /\ [][NextSign]_vars

\* No Company yet.
InitEmpty ==
    /\ exists = FALSE
    /\ token = NoToken
    /\ token_expiration = NoneDate
    /\ users = {}
    /\ events = {}
    /\ requests = {}
    /\ now = 0
    /\ Quiet

NextHook ==
    \/ CreateCompany(MaxShortViews)
    \/ AdminSaveCompany(FewTokens, FewExpirations)
    \/ Tick
    \/ Return({})

SpecHook == InitEmpty /\ [][NextHook]_vars

\* The same Company with both users on calendar 1.
InitShared ==
    /\ exists = TRUE
    /\ token = LongToken
    /\ token_expiration = MaxTime + 1
    /\ users = {NewUser([UserId |-> 1, CalendarId |-> 1]),
                NewUser([UserId |-> 2, CalendarId |-> 1])}
    /\ events = {}
    /\ requests = {}
    /\ now = 0
    /\ Quiet

NextViews ==
    \/ SyncUserRequestView(MaxShortViews)
    \/ SyncCompanyUsersView(MaxShortViews)
    \/ AdminSaveCompany(FewTokens, FewExpirations)
    \/ Return({})

SpecViews == InitShared /\ [][NextViews]_vars

NextGuard ==
    \/ GetCompanyUsersAct(MaxShortViews)
    \/ GetCalendarEventsAct(MaxShortViews)
    \/ GetUsersRequestsAct(MaxShortViews)
    \/ GetUserRequestAct(MaxShortViews, {NoneDate})
    \/ GetRequestsChangesAct
    \/ SignAct
    \/ AdminSaveCompany(FewTokens, FewExpirations)
    \/ Return({})

SpecGuard == InitSynced /\ [][NextGuard]_vars

NextLoop ==
    \/ PullCompanyEventsAct(MidnightResponses(MaxShortViews))
    \/ AdminSetActive
    \/ Return({})

SpecLoop == InitSynced /\ [][NextLoop]_vars

----------------------------------------------------------------------------
(* Token acquisition *)

\* C1: a get_company_token call made while the stored token is non-empty and
\* its expiry is strictly after the current time returns the stored token,
\* makes no HTTP call, raises nothing and leaves the stored token and expiry
\* as they were; so of two acquisitions in a row inside the validity window
\* the second makes no HTTP call.
C1_CachedTokenNoNetwork ==
    [][(/\ op' = "get_company_token"
        /\ token # NoToken
        /\ token_expiration # NoneDate
        /\ token_expiration > now)
       => (/\ result' = token
           /\ calls' = <<>>
           /\ raised' = NoRaise
           /\ token' = token
           /\ token_expiration' = token_expiration)]_vars

\* Two acquisitions in a row with a valid token, the second answered from
\* the stored token without a call.
C1_Witness ==
    /\ prevOp = "get_company_token"
    /\ op = "get_company_token"
    /\ token \in TokenValues
    /\ token_expiration > now
    /\ result = token
    /\ calls = <<>>

\* C2: a get_company_token call made while the token is not valid, answered
\* 200 with access_token and expires_in, stores that token with expiry
\* now + expires_in, returns it and leaves the token valid; answered with
\* another status it returns the absent value, raises nothing and leaves the
\* stored token and expiry unchanged.
C2_RefreshPersists ==
    [][(/\ op' = "get_company_token"
        /\ ~(token # NoToken /\ token_expiration # NoneDate /\ token_expiration > now))
       => /\ Len(calls') = 1
          /\ LET c == calls'[1] IN
             /\ (/\ c.status = 200
                 /\ c.body.access_token # Absent
                 /\ c.body.expires_in # NoneDate)
                => (/\ raised' = NoRaise
                    /\ token' = c.body.access_token
                    /\ token_expiration' = now + c.body.expires_in
                    /\ result' = c.body.access_token
                    /\ token_expiration' > now')
             /\ c.status # 200
                => (/\ raised' = NoRaise
                    /\ result' = None
                    /\ token' = token
                    /\ token_expiration' = token_expiration)]_vars

----------------------------------------------------------------------------
(* Sign *)

UserById(us, id) == CHOOSE u \in us : u.woffu_id = id

\* C3: a sign for a Saturday or a Sunday, for a date with a CalendarEvent of
\* the user's calendar, or for a date inside a stored UserRequest of the user
\* (init_date <= date <= end_date) makes no POST and returns the no-op
\* value; a sign for any other date makes exactly one POST to the signs
\* endpoint and returns whether it succeeded.
C3_SignSuppressedOrPosted ==
    op = "sign" =>
        LET u == UserById(users, args[1])
            date == args[2]
            suppressed ==
                \/ Weekday(date) \in {5, 6}
                \/ \E e \in events : e.calendar_id = u.calendar_id /\ e.date = date
                \/ \E r \in requests : /\ r.woffu_user = u.woffu_id
                                       /\ r.init_date <= date
                                       /\ date <= r.end_date
        IN /\ raised = NoRaise
           /\ IF suppressed
              THEN calls = <<>> /\ result = None
              ELSE /\ Len(calls) = 1
                   /\ calls[1].ep = "signs"
                   /\ result = (IF Ok(calls[1].status) THEN "True" ELSE "False")

----------------------------------------------------------------------------
(* Calendar events *)

RowsOf(evs, cal) == {e \in evs : e.calendar_id = cal}

\* C4: after get_calendar_events, for every calendar answered 200 the dates
\* of its stored rows are exactly the dates of the answer and no date is
\* stored twice; the rows of every other calendar are as they were.
C4_FullReplacePerCalendar ==
    [][(op' = "get_calendar_events" /\ raised' = NoRaise)
       => \A cal \in CalendarIds :
             LET answered == {i \in 1..Len(calls') :
                                /\ calls'[i].ep = "events"
                                /\ calls'[i].key = cal
                                /\ calls'[i].status = 200}
             IN IF answered = {}
                THEN RowsOf(events', cal) = RowsOf(events, cal)
                ELSE \A i \in answered :
                        LET body == calls'[i].body
                            dates == {DateOf(body[j].Date) : j \in 1..Len(body)}
                        IN /\ {e.date : e \in RowsOf(events', cal)} = dates
                           /\ Cardinality(RowsOf(events', cal)) = Cardinality(dates)]_vars

----------------------------------------------------------------------------
(* User requests *)

Created(v) == ~v.Deleted /\ ~v.UpdatedOn

\* The get_user_request step answered 200.
Answered200 ==
    /\ op' = "get_user_request"
    /\ Len(calls') = 1
    /\ calls'[1].status = 200

\* C5: a 200 answer of get_user_request never raises, whether or not the id
\* of a "deleted" record is stored; no id is stored twice; and an id that a
\* "created" record names, once or twice, and that no later record of the
\* answer deletes, is stored in exactly one row.
C5_ReconcileIdempotent ==
    [][Answered200
       => LET body == calls'[1].body IN
          /\ raised' = NoRaise
          /\ \A r1, r2 \in requests' : r1.id = r2.id => r1 = r2
          /\ \A i \in 1..Len(body) :
                (/\ Created(body[i])
                 /\ \A j \in (i + 1)..Len(body) :
                       ~(body[j].Deleted /\ body[j].RequestId = body[i].RequestId))
                => Cardinality({r \in requests' : r.id = body[i].RequestId}) = 1]_vars

\* The three actions as the claim words them, for one record and for a list.
Claimed(rs, uid, v) ==
    IF v.Deleted THEN {r \in rs : r.id # v.RequestId}
    ELSE IF v.UpdatedOn
    THEN {IF r.id = v.RequestId
          THEN [r EXCEPT !.init_date = DateOf(v.StartDate),
                         !.end_date = DateOf(v.EndDate)]
          ELSE r : r \in rs}
    ELSE IF \E r \in rs : r.id = v.RequestId THEN rs
    ELSE rs \cup {[id |-> v.RequestId, woffu_user |-> uid,
                   init_date |-> DateOf(v.StartDate),
                   end_date |-> DateOf(v.EndDate)]}

RECURSIVE ClaimedAll(_, _, _, _)
ClaimedAll(rs, uid, body, i) ==
    IF i > Len(body) THEN rs
    ELSE ClaimedAll(Claimed(rs, uid, body[i]), uid, body, i + 1)

\* C6: after a 200 answer of get_user_request the stored rows are those that
\* result from applying to every record of the answer, in order, the one
\* action its flags choose: remove by id, overwrite the dates by id, or
\* create when the id is not stored; rows of other ids are untouched.
C6_ThreeWayPerRecord ==
    [][Answered200
       => requests' = ClaimedAll(requests, args'[1], calls'[1].body, 1)]_vars

\* C10: a get_user_request that was answered 200 and raised nothing leaves
\* the user's stored updated_at equal to the current date; one that was
\* answered another status, or returned early, leaves the users and the
\* UserRequest rows unchanged.
C10_WatermarkOnSuccess ==
    [][(op' = "get_user_request" /\ raised' = NoRaise)
       => IF Len(calls') = 1 /\ calls'[1].status = 200
          THEN UserById(users', args'[1]).updated_at = DateOf(now')
          ELSE users' = users /\ requests' = requests]_vars

----------------------------------------------------------------------------
(* The post_save receiver and the trigger endpoints *)

\* C7: creating a Company runs the users pull, the events pull and the
\* requests pull, in that order and once each, and raises nothing, also when
\* the users pull is answered with a failure; saving an existing Company
\* runs no pull.
C7_HookRunsThreePulls ==
    /\ op = "create_company"
       => /\ raised = NoRaise
          /\ invoked = <<"get_company_users", "get_calendar_events", "get_users_requests">>
    /\ op = "save_company" => (invoked = <<>> /\ calls = <<>>)

\* C8: sync_user_request and sync_company_users answer 204 and raise
\* nothing, whatever the token state and whatever the external API answers.
C8_EndpointsAlwaysSucceed ==
    op \in {"sync_user_request", "sync_company_users"}
       => (result = "204" /\ raised = NoRaise)

----------------------------------------------------------------------------
(* The token guard *)

GuardedOps ==
    {"get_company_users", "get_calendar_events", "get_users_requests",
     "get_user_request", "get_requests_changes", "sign"}

TokenCalls(cs) == {i \in 1..Len(cs) : cs[i].ep = "token"}

\* C9: a guarded operation called while the token is not valid makes exactly
\* one call of the token endpoint and then enters the wrapped function
\* exactly once; called while the token is valid it makes no call of the
\* token endpoint and enters the wrapped function exactly once.
C9_OneRefreshThenOneCall ==
    [][op' \in GuardedOps
       => /\ invoked' = <<op'>>
          /\ Cardinality(TokenCalls(calls')) =
                (IF token # NoToken /\ token_expiration # NoneDate
                       /\ token_expiration > now
                 THEN 0 ELSE 1)]_vars

----------------------------------------------------------------------------
(* The loop over the calendars *)

EventCalls(cs, cal) == {i \in 1..Len(cs) : cs[i].ep = "events" /\ cs[i].key = cal}

\* C11: a get_calendar_events over the calendars of the company in which
\* some calendar is answered with a status other than 200 raises nothing and
\* still asks for every calendar of an active user exactly once and for no
\* other; a calendar answered 200 then stores exactly the dates of its
\* answer, and a calendar answered otherwise, or not asked for, keeps its
\* stored events.
C11_FailureDoesNotAbortLoop ==
    [][(/\ op' = "get_calendar_events"
        /\ args'[1] = NoCalendar
        /\ \E i \in 1..Len(calls') : calls'[i].status # 200)
       => /\ raised' = NoRaise
          /\ \A cal \in CalendarIds :
                LET asked == EventCalls(calls', cal) IN
                IF \E u \in users : u.active /\ u.calendar_id = cal
                THEN /\ Cardinality(asked) = 1
                     /\ \A i \in asked :
                           LET body == calls'[i].body IN
                           IF calls'[i].status = 200
                           THEN {e.date : e \in RowsOf(events', cal)}
                                   = {DateOf(body[j].Date) : j \in 1..Len(body)}
                           ELSE RowsOf(events', cal) = RowsOf(events, cal)
                ELSE /\ asked = {}
                     /\ RowsOf(events', cal) = RowsOf(events, cal)]_vars

\* A pull whose first calendar was answered with a failure and kept its
\* stored events, and whose second calendar was answered 200 with an event
\* and stores it.
C11_Witness ==
    /\ op = "get_calendar_events"
    /\ Len(calls) = 2
    /\ calls[1].status # 200
    /\ RowsOf(events, calls[1].key) # {}
    /\ calls[2].status = 200
    /\ Len(calls[2].body) > 0
    /\ {e.date : e \in RowsOf(events, calls[2].key)}
          = {DateOf(calls[2].body[j].Date) : j \in 1..Len(calls[2].body)}

====
